---- MODULE Spec2Model ----
(***************************************************************************)
(* A model of the SUMO side of the OpenCDA co-simulation bridge:           *)
(*   - SumoTLLogic / SumoTLManager (traffic light topology and state),     *)
(*   - SumoSimulation (tick, spawn, destroy),                              *)
(*   - the sample TraCI loop of custom_single_town10_cosim.                *)
(* The lane engine (traci) and the world engine (carla) are modelled as    *)
(* the part of their state the bridge reads and writes.                    *)
(***************************************************************************)
EXTENDS Integers, Sequences, FiniteSets, TLC

VARIABLES
    running,            \* which program runs: the co-simulation session or the sample loop
    net,                \* lane engine: junctions, their program logics and parameters
    eProgram,           \* lane engine: current program of each junction
    ePhase,             \* lane engine: current phase index of each junction
    ryg,                \* lane engine: current state string of each junction
    subs,               \* lane engine: subscription results of the last step
    tls,                \* SumoTLManager._tls
    current_program,    \* SumoTLManager._current_program
    current_phase,      \* SumoTLManager._current_phase
    off,                \* SumoTLManager._off
    carlaLights,        \* world engine: state of the light of each landmark
    vehicles,           \* lane engine: identifiers of the vehicles in the simulation
    pending,            \* lane engine: vehicles added or loaded that have not departed
    departed,           \* lane engine: getDepartedIDList() of the last step
    arrived,            \* lane engine: getArrivedIDList() of the last step
    sequential_id,      \* SumoSimulation._sequential_id
    spawned_actors,     \* SumoSimulation.spawned_actors
    destroyed_actors,   \* SumoSimulation.destroyed_actors
    returned,           \* the identifiers spawn_actor has returned, oldest first
    pc,                 \* run_scenario: the statement the driver is at
    bound,              \* run_scenario: the local names bound so far
    closed,             \* run_scenario: how many times close() was executed
    step,                       \* sample_traci: step (elapsed time, in hundredths of a second)
    stepCount,                  \* sample_traci: stepCount
    vehicle_id_list,            \* sample_traci: vehicle_id_list of the last iteration
    current_vehicle_count,      \* sample_traci: current_vehicle_count
    current_vehicle_id_list,    \* sample_traci: current_vehicle_id_list
    removed_vehicles,           \* sample_traci: removed_vehicles
    ret                 \* the last call and what it returned or raised

engineTl == <<net, eProgram, ePhase, ryg, subs>>

managerTl == <<tls, current_program, current_phase, off>>

engineVeh == <<vehicles, pending, departed, arrived>>

sessionVeh == <<sequential_id, spawned_actors, destroyed_actors>>

sampleVars == <<step, stepCount, vehicle_id_list, current_vehicle_count,
                current_vehicle_id_list, removed_vehicles>>

driver == <<pc, bound, closed>>

vars == <<running, net, eProgram, ePhase, ryg, subs, tls, current_program, current_phase, off,
          carlaLights, vehicles, pending, departed, arrived, sequential_id,
          spawned_actors, destroyed_actors, returned, pc, bound, closed, step, stepCount,
          vehicle_id_list, current_vehicle_count, current_vehicle_id_list, removed_vehicles,
          ret>>

-----------------------------------------------------------------------------
(* Python values *)

None == "None"
KeyError == "KeyError"
IndexError == "IndexError"
ValueError == "ValueError"

\* An insertion-ordered dict is a sequence of <<key, value>> pairs with distinct keys.
DictHas(d, k) == \E i \in 1..Len(d) : d[i][1] = k

DictGet(d, k) == d[CHOOSE i \in 1..Len(d) : d[i][1] = k][2]

DictKeys(d) == [i \in 1..Len(d) |-> d[i][1]]

DictSet(d, k, v) ==
    IF DictHas(d, k)
    THEN [i \in 1..Len(d) |-> IF d[i][1] = k THEN <<k, v>> ELSE d[i]]
    ELSE Append(d, <<k, v>>)

\* seq[i] with Python's indexing: 0-based, negative indices count from the end.
InRange(seq, i) == i >= -Len(seq) /\ i < Len(seq)

PyIndex(seq, i) == IF i >= 0 THEN seq[i + 1] ELSE seq[Len(seq) + i + 1]

SeqToSet(seq) == {seq[i] : i \in 1..Len(seq)}

-----------------------------------------------------------------------------
(* SumoSignalState and carla.TrafficLightState *)

RED == "r"
YELLOW == "y"
GREEN == "G"
GREEN_WITHOUT_PRIORITY == "g"
GREEN_RIGHT_TURN == "s"
RED_YELLOW == "u"
OFF_BLINKING == "o"
OFF == "O"

SumoSignalState == {RED, YELLOW, GREEN, GREEN_WITHOUT_PRIORITY, GREEN_RIGHT_TURN,
                    RED_YELLOW, OFF_BLINKING, OFF}

\* Any character a state string may hold: the eight of SumoSignalState and
\* characters outside it ("x" stands for them).
StateChars == SumoSignalState \cup {"x"}

CarlaRed == "Red"
CarlaYellow == "Yellow"
CarlaGreen == "Green"
CarlaOff == "Off"
CarlaUnknown == "Unknown"
Unset == "unset"

ONLINE == "online"

\* Mutant: RED_YELLOW taken for YELLOW.
get_carla_traffic_light_state_red_yellow(sumo_tl_state) ==
    IF sumo_tl_state = RED THEN CarlaRed
    ELSE IF sumo_tl_state = YELLOW \/ sumo_tl_state = RED_YELLOW THEN CarlaYellow
    ELSE IF sumo_tl_state = GREEN \/ sumo_tl_state = GREEN_WITHOUT_PRIORITY THEN CarlaGreen
    ELSE IF sumo_tl_state = OFF THEN CarlaOff
    ELSE CarlaUnknown

get_carla_traffic_light_state(sumo_tl_state) ==
    IF sumo_tl_state = RED \/ sumo_tl_state = RED_YELLOW THEN CarlaRed
    ELSE IF sumo_tl_state = YELLOW THEN CarlaYellow
    ELSE IF sumo_tl_state = GREEN \/ sumo_tl_state = GREEN_WITHOUT_PRIORITY THEN CarlaGreen
    ELSE IF sumo_tl_state = OFF THEN CarlaOff
    ELSE CarlaUnknown

-----------------------------------------------------------------------------
(* SumoTLLogic *)

\* A parameter key "linkSignalID:x" is held as its parts around ':' (what
\* split(':') returns); int() of a part is read from this table.
IntTexts == <<"0", "1", "2", "3", "4", "5">>

\* Texts int() reads as negative numbers: NegIntTexts[i] is the text of -i.
NegIntTexts == <<"-1", "-2">>

IsIntText(s) ==
    \/ \E i \in 1..Len(IntTexts) : IntTexts[i] = s
    \/ \E i \in 1..Len(NegIntTexts) : NegIntTexts[i] = s

PyInt(s) ==
    IF \E i \in 1..Len(IntTexts) : IntTexts[i] = s
    THEN (CHOOSE i \in 1..Len(IntTexts) : IntTexts[i] = s) - 1
    ELSE 0 - (CHOOSE i \in 1..Len(NegIntTexts) : NegIntTexts[i] = s)

LinkKey(i) == <<"linkSignalID", IntTexts[i + 1]>>

RECURSIVE AddParameters(_, _, _, _)
AddParameters(tlid, parameters, landmark2link, link2landmark) ==
    IF parameters = <<>>
    THEN [landmark2link |-> landmark2link, link2landmark |-> link2landmark]
    ELSE LET key == Head(parameters)[1]
             landmark_id == Head(parameters)[2]
             link_index == PyInt(key[2])
             old == IF DictHas(landmark2link, landmark_id)
                    THEN DictGet(landmark2link, landmark_id)
                    ELSE <<>>
         IN AddParameters(tlid, Tail(parameters),
                DictSet(landmark2link, landmark_id, Append(old, <<tlid, link_index>>)),
                DictSet(link2landmark, <<tlid, link_index>>, landmark_id))

\* int(link_index.split(':')[1]) of one key: the exception it raises, or None.
\* The text before the colon is not looked at.
key_error(key) ==
    IF Len(key) < 2 THEN IndexError
    ELSE IF ~IsIntText(key[2]) THEN ValueError
    ELSE None

\* The exception __init__ ends with: that of the first key that raises.
RECURSIVE parameters_error(_)
parameters_error(parameters) ==
    IF parameters = <<>> THEN None
    ELSE IF key_error(Head(parameters)[1]) # None THEN key_error(Head(parameters)[1])
    ELSE parameters_error(Tail(parameters))

SumoTLLogic(tlid, states, parameters) ==
    LET maps == AddParameters(tlid, parameters, <<>>, <<>>)
    IN [tlid |-> tlid, states |-> states,
        landmark2link |-> maps.landmark2link,
        link2landmark |-> maps.link2landmark]

\* Mutant: the number of phases is taken for the number of signals.
get_number_signals_phase_count(tl) == Len(tl.states)

get_number_signals(tl) == IF Len(tl.states) > 0 THEN Len(tl.states[1]) ELSE 0

TLLogic_get_all_signals(tl) == {<<tl.tlid, i>> : i \in 0..(get_number_signals(tl) - 1)}

TLLogic_get_all_landmarks(tl) == SeqToSet(DictKeys(tl.landmark2link))

\* Mutant: a landmark the program does not mention is given link 0.
get_associated_signals_default_link(tl, landmark_id) ==
    IF DictHas(tl.landmark2link, landmark_id)
    THEN DictGet(tl.landmark2link, landmark_id)
    ELSE <<<<tl.tlid, 0>>>>

get_associated_signals(tl, landmark_id) ==
    IF DictHas(tl.landmark2link, landmark_id)
    THEN DictGet(tl.landmark2link, landmark_id)
    ELSE <<>>

-----------------------------------------------------------------------------
(* SumoTLManager *)

TlIds(n) == SeqToSet(DictKeys(n))

\* __init__: one SumoTLLogic per junction and program the engine lists.
BuildPrograms(tlid, logics) ==
    [i \in 1..Len(logics) |->
        <<logics[i].programID,
          SumoTLLogic(tlid, logics[i].phases, logics[i].parameters)>>]

BuildTls(n) == [i \in 1..Len(n) |-> <<n[i][1], BuildPrograms(n[i][1], n[i][2])>>]

\* self._tls[tlid][program_id] is defined for every junction.
ProgramsKnown ==
    \A tlid \in DOMAIN current_program :
        DictHas(tls, tlid) /\ DictHas(DictGet(tls, tlid), current_program[tlid])

CurrentLogic(tlid) == DictGet(DictGet(tls, tlid), current_program[tlid])

\* get_all_signals / get_all_landmarks / get_all_associated_signals raise
\* KeyError unless ProgramsKnown; these give their value when they do not raise.
get_all_signals ==
    UNION {TLLogic_get_all_signals(CurrentLogic(tlid)) : tlid \in DOMAIN current_program}

get_all_landmarks ==
    UNION {TLLogic_get_all_landmarks(CurrentLogic(tlid)) : tlid \in DOMAIN current_program}

get_all_associated_signals(landmark_id) ==
    UNION {SeqToSet(get_associated_signals(CurrentLogic(tlid), landmark_id)) :
               tlid \in DOMAIN current_program}

\* tl.states[current_phase][link_index] of one link can be read.
LinkReadable(link) ==
    LET tl == CurrentLogic(link[1])
    IN /\ InRange(tl.states, current_phase[link[1]])
       /\ InRange(PyIndex(tl.states, current_phase[link[1]]), link[2])

LinkChar(link) ==
    LET tl == CurrentLogic(link[1])
    IN PyIndex(PyIndex(tl.states, current_phase[link[1]]), link[2])

\* Mutant: links that disagree give the state of one of them, not RED.
get_state_one_link(landmark_id) ==
    IF ~ProgramsKnown THEN KeyError
    ELSE IF \E link \in get_all_associated_signals(landmark_id) : ~LinkReadable(link)
    THEN IndexError
    ELSE LET states == {LinkChar(link) : link \in get_all_associated_signals(landmark_id)}
         IN IF Cardinality(states) >= 1 THEN CHOOSE s \in states : TRUE
            ELSE None

\* What get_state returns, or the exception it ends with.
get_state(landmark_id) ==
    IF ~ProgramsKnown THEN KeyError
    ELSE IF \E link \in get_all_associated_signals(landmark_id) : ~LinkReadable(link)
    THEN IndexError
    ELSE LET states == {LinkChar(link) : link \in get_all_associated_signals(landmark_id)}
         IN IF Cardinality(states) = 1 THEN CHOOSE s \in states : TRUE
            ELSE IF Cardinality(states) > 1 THEN RED
            ELSE None

\* Mutant: the state is pushed to every link of the junctions of the links.
SetLinkStates_whole_junction(links, state) ==
    LET touched == {link[1] : link \in links}
    IN /\ ryg' = [tlid \in DOMAIN ryg |->
                    [i \in 1..Len(ryg[tlid]) |->
                        IF tlid \in touched THEN state ELSE ryg[tlid][i]]]
       /\ eProgram' = [tlid \in DOMAIN eProgram |->
                        IF tlid \in touched THEN ONLINE ELSE eProgram[tlid]]
       /\ ePhase' = [tlid \in DOMAIN ePhase |->
                        IF tlid \in touched THEN 0 ELSE ePhase[tlid]]

\* set_state and switch_off: traci.trafficlight.setLinkState on each link of a
\* set; the engine then runs the junction under its program 'online'.
SetLinkStates(links, state) ==
    LET touched == {link[1] : link \in links}
    IN /\ ryg' = [tlid \in DOMAIN ryg |->
                    [i \in 1..Len(ryg[tlid]) |->
                        IF <<tlid, i - 1>> \in links THEN state ELSE ryg[tlid][i]]]
       /\ eProgram' = [tlid \in DOMAIN eProgram |->
                        IF tlid \in touched THEN ONLINE ELSE eProgram[tlid]]
       /\ ePhase' = [tlid \in DOMAIN ePhase |->
                        IF tlid \in touched THEN 0 ELSE ePhase[tlid]]

\* Mutant: the phase is not recorded with the program.
TLTickJunction_program_only(recorded, results) ==
    IF results[1] # ONLINE THEN <<results[1], recorded[2]>> ELSE recorded

\* Mutant: the tick reads the results and keeps the pair it had recorded.
TLTickJunction_keeps_recorded(recorded, results) == recorded

\* tick, for one junction: the pair recorded after reading the subscription results.
TLTickJunction(recorded, results) ==
    IF results[1] # ONLINE THEN results ELSE recorded

\* Mutant: the tick does not look at the disabled flag.
TLTick_ignores_off(results) ==
    [tlid \in DOMAIN current_program |->
        TLTickJunction(<<current_program[tlid], current_phase[tlid]>>, results[tlid])]

\* tick: the recorded <<program, phase>> of every junction after the call.
TLTick(results) ==
    IF off = FALSE
    THEN [tlid \in DOMAIN current_program |->
            TLTickJunction(<<current_program[tlid], current_phase[tlid]>>, results[tlid])]
    ELSE [tlid \in DOMAIN current_program |-> <<current_program[tlid], current_phase[tlid]>>]

-----------------------------------------------------------------------------
(* set_states_from_sumo *)

\* sorted(list, key=lambda x: x[1]): a stable sort by link index.
InsertByIndex(sorted, x) ==
    LET k == Cardinality({i \in 1..Len(sorted) : sorted[i][2] <= x[2]})
    IN SubSeq(sorted, 1, k) \o <<x>> \o SubSeq(sorted, k + 1, Len(sorted))

RECURSIVE SortedByIndex(_)
SortedByIndex(list) ==
    IF list = <<>> THEN <<>>
    ELSE InsertByIndex(SortedByIndex(SubSeq(list, 1, Len(list) - 1)), list[Len(list)])

RECURSIVE Concat(_)
Concat(seqs) == IF seqs = <<>> THEN <<>> ELSE Head(seqs) \o Concat(Tail(seqs))

\* The landmarks in the order the three nested loops visit them.
VisitsOfProgram(tlid, program) ==
    [k \in 1..Len(program[2].landmark2link) |->
        [tlid |-> tlid, programID |-> program[1], tl |-> program[2],
         c_tlid |-> program[2].landmark2link[k][1]]]

VisitsOfJunction(c_tl) ==
    Concat([i \in 1..Len(c_tl[2]) |-> VisitsOfProgram(c_tl[1], c_tl[2][i])])

Visits == Concat([j \in 1..Len(tls) |-> VisitsOfJunction(tls[j])])

\* Mutant: the links are left in insertion order.
insertion_order_list(visit) == DictGet(visit.tl.landmark2link, visit.c_tlid)

resorted_idx_list(visit) == SortedByIndex(DictGet(visit.tl.landmark2link, visit.c_tlid))

link2sumostate(visit) ==
    LET resorted == resorted_idx_list(visit)
    IN [k \in 1..Len(resorted) |-> PyIndex(ryg[visit.tlid], resorted[k][2])]

\* The light looked up in the inner loop: the landmark of the last sorted link.
carla_tl_to_change(visit) ==
    LET resorted == resorted_idx_list(visit)
    IN DictGet(visit.tl.link2landmark, resorted[Len(resorted)])

\* The state one landmark's light is set to, or "raise".
Raise == "raise"

\* Mutant: of two links only the first is tested for RED.
TargetState_first_red(visit) ==
    LET n == Len(resorted_idx_list(visit))
        states == link2sumostate(visit)
    IN IF n = 3 THEN get_carla_traffic_light_state(states[2])
       ELSE IF n = 2
            THEN IF states[1] = RED THEN CarlaRed
                 ELSE get_carla_traffic_light_state(states[1])
       ELSE Raise

\* Mutant: of two links without RED the second is translated.
TargetState_second_of_two(visit) ==
    LET n == Len(resorted_idx_list(visit))
        states == link2sumostate(visit)
    IN IF n = 3 THEN get_carla_traffic_light_state(states[2])
       ELSE IF n = 2
            THEN IF RED \in SeqToSet(states) THEN CarlaRed
                 ELSE get_carla_traffic_light_state(states[2])
       ELSE Raise

\* Mutant: any other number of links is translated from the first link.
TargetState_any_count(visit) ==
    LET n == Len(resorted_idx_list(visit))
        states == link2sumostate(visit)
    IN IF n = 3 THEN get_carla_traffic_light_state(states[2])
       ELSE IF n = 2
            THEN IF RED \in SeqToSet(states) THEN CarlaRed
                 ELSE get_carla_traffic_light_state(states[1])
       ELSE get_carla_traffic_light_state(states[1])

TargetState(visit) ==
    LET n == Len(resorted_idx_list(visit))
        states == link2sumostate(visit)
    IN IF n = 3 THEN get_carla_traffic_light_state(states[2])
       ELSE IF n = 2
            THEN IF RED \in SeqToSet(states) THEN CarlaRed
                 ELSE get_carla_traffic_light_state(states[1])
       ELSE Raise

\* Mutant: a landmark with an unsupported number of links is skipped and the
\* loops go on; the error is reported at the end.
RECURSIVE ApplyVisits_skip(_, _, _)
ApplyVisits_skip(visits, lights, calls) ==
    IF visits = <<>> THEN [lights |-> lights, calls |-> calls, raisedAt |-> <<>>]
    ELSE LET visit == Head(visits)
             target == TargetState(visit)
             light == carla_tl_to_change(visit)
         IN IF target = Raise
            THEN [ApplyVisits_skip(Tail(visits), lights, calls) EXCEPT
                     !.raisedAt = <<[tlid |-> visit.tlid, programID |-> visit.programID,
                                     c_tlid |-> visit.c_tlid]>>]
            ELSE ApplyVisits_skip(Tail(visits),
                     [lights EXCEPT ![light] = target],
                     Append(calls, [tlid |-> visit.tlid, programID |-> visit.programID,
                                    c_tlid |-> visit.c_tlid, light |-> light,
                                    state |-> target]))

\* The loops from one visit on: the lights, the set_state calls made in order,
\* and the visit that raised (or <<>>).
RECURSIVE ApplyVisits(_, _, _)
ApplyVisits(visits, lights, calls) ==
    IF visits = <<>> THEN [lights |-> lights, calls |-> calls, raisedAt |-> <<>>]
    ELSE LET visit == Head(visits)
             target == TargetState(visit)
             light == carla_tl_to_change(visit)
         IN IF target = Raise
            THEN [lights |-> lights, calls |-> calls,
                  raisedAt |-> <<[tlid |-> visit.tlid, programID |-> visit.programID,
                                  c_tlid |-> visit.c_tlid]>>]
            ELSE ApplyVisits(Tail(visits),
                     [lights EXCEPT ![light] = target],
                     Append(calls, [tlid |-> visit.tlid, programID |-> visit.programID,
                                    c_tlid |-> visit.c_tlid, light |-> light,
                                    state |-> target]))

set_states_from_sumo == ApplyVisits(Visits, carlaLights, <<>>)

\* Mutant: the list of a landmark is sorted in place (list.sort), so the
\* table holds the sorted list after the call.
table_sorted_in_place(table) ==
    [j \in 1..Len(table) |->
        <<table[j][1],
          [i \in 1..Len(table[j][2]) |->
              <<table[j][2][i][1],
                [table[j][2][i][2] EXCEPT
                    !.landmark2link =
                        [k \in 1..Len(@) |-> <<@[k][1], SortedByIndex(@[k][2])>>]]>>]>>]

\* self._tls after set_states_from_sumo: sorted() returns a new list, and the
\* list the table holds is left in its insertion order.
table_after_sorted(table) == table

-----------------------------------------------------------------------------
(* The lane engine's traffic lights *)

\* A program added to a junction after the manager enumerated the programs.
UNLISTED == "unlisted"

Logics(tlid) == DictGet(net, tlid)

\* The <<program, phase>> pairs of the programs the engine listed at start.
ListedPairs(tlid) ==
    UNION {{<<Logics(tlid)[i].programID, k>> : k \in 0..(Len(Logics(tlid)[i].phases) - 1)} :
              i \in 1..Len(Logics(tlid))}

PhaseString(tlid, pair) ==
    LET i == CHOOSE i \in 1..Len(Logics(tlid)) : Logics(tlid)[i].programID = pair[1]
    IN Logics(tlid)[i].phases[pair[2] + 1]

\* What one step may leave a junction in: any listed program and phase, or a
\* program added since (by another client of the engine); a junction under
\* 'online' may stay there.
StepChoices(tlid) ==
    ListedPairs(tlid) \cup {<<UNLISTED, 0>>}
        \cup (IF eProgram[tlid] = ONLINE THEN {<<ONLINE, 0>>} ELSE {})

\* traci.simulationStep(), the traffic lights: the engine moves every junction
\* to choice[tlid] and refreshes the subscription results.
StepLights(choice) ==
    /\ eProgram' = [tlid \in DOMAIN eProgram |-> choice[tlid][1]]
    /\ ePhase' = [tlid \in DOMAIN ePhase |-> choice[tlid][2]]
    /\ ryg' = [tlid \in DOMAIN ryg |->
                IF choice[tlid] \in ListedPairs(tlid)
                THEN PhaseString(tlid, choice[tlid])
                ELSE ryg[tlid]]
    /\ subs' = choice

-----------------------------------------------------------------------------
(* The lane engine's vehicles *)

\* traci.simulationStep(), the vehicles: some vehicles in the simulation
\* arrive, some of the waiting ones depart.
StepVehicles(arr, dep) ==
    /\ vehicles' = (vehicles \ arr) \cup dep
    /\ pending' = pending \ dep
    /\ departed' = dep
    /\ arrived' = arr

-----------------------------------------------------------------------------
(* The networks of the checked sessions *)

Reverse(seq) == [k \in 1..Len(seq) |-> seq[Len(seq) + 1 - k]]

Perms(seq) == {[k \in 1..Len(seq) |-> seq[p[k]]] : p \in Permutations(1..Len(seq))}

\* The parameters of one landmark: its links in insertion order.
ParamsOf(entry) == [k \in 1..Len(entry[2]) |-> <<LinkKey(entry[2][k]), entry[1]>>]

\* A layout lists the landmarks of a junction and the links of each, both in
\* the order the parameters give them.
LayoutParams(layout) == Concat([k \in 1..Len(layout) |-> ParamsOf(layout[k])])

RECURSIVE Width(_)
Width(layout) == IF layout = <<>> THEN 0 ELSE Len(Head(layout)[2]) + Width(Tail(layout))

ReverseLinks(layout) == [k \in 1..Len(layout) |-> <<layout[k][1], Reverse(layout[k][2])>>]

Orders(layout) ==
    {layout, Reverse(layout), ReverseLinks(layout), Reverse(ReverseLinks(layout))}

Landmarks == {"L1", "L2", "M1"}

\* A landmark no program mentions.
UnknownLandmark == "L0"

PhaseA == <<"G", "G", "G", "r", "r", "r">>
PhaseB == <<"y", "G", "r", "G", "u", "s">>
PhaseC == <<"u", "r", "G", "r", "G", "o">>

Take(seq, n) == SubSeq(seq, 1, n)

JunctionTwo ==
    <<"J2", << [programID |-> "0", phases |-> << <<"r", "G">>, <<"G", "G">> >>,
                parameters |-> LayoutParams(<< <<"M1", <<0, 1>> >> >>)] >> >>

\* Junction J2 with the two links of its landmark listed in falling order.
JunctionTwoReversed ==
    <<"J2", << [programID |-> "0", phases |-> << <<"r", "G">>, <<"G", "G">> >>,
                parameters |-> LayoutParams(<< <<"M1", <<1, 0>> >> >>)] >> >>

\* Junction J1 has two programs over one layout; junction J2 has one program
\* and one landmark of two links.
NetOf(layout) ==
    LET w == Width(layout)
        parameters == LayoutParams(layout)
    IN << <<"J1", << [programID |-> "0", phases |-> <<Take(PhaseA, w), Take(PhaseB, w)>>,
                      parameters |-> parameters],
                     [programID |-> "1", phases |-> <<Take(PhaseC, w)>>,
                      parameters |-> parameters] >> >>,
          JunctionTwo >>

ManagerLayouts ==
    { << <<"L1", <<0, 1, 2>> >>, <<"L2", <<4, 3>> >> >>,
      << <<"L2", <<1, 2>> >>, <<"L1", <<0>> >> >> }

\* A junction with one program of one phase: the state string the engine holds.
SingleNet(layout, state) ==
    << <<"J1", << [programID |-> "0", phases |-> <<state>>,
                   parameters |-> LayoutParams(layout)] >> >> >>

Strings(chars, n) == [1..n -> chars]

\* One landmark of one to four links, in every insertion order, under every
\* state string (a landmark of one or four links: over two characters).
OneLandmarkNets ==
    UNION {{SingleNet(<< <<"L1", links>> >>, state) :
               links \in Perms(base),
               state \in Strings(IF Len(base) \in {2, 3} THEN StateChars ELSE {RED, GREEN},
                                 Len(base))} :
           base \in {<<0>>, <<0, 1>>, <<0, 1, 2>>, <<0, 1, 2, 3>>}}

TwoLandmarkLayouts ==
    UNION {Orders(layout) :
           layout \in { << <<"L1", <<0, 1, 2>> >>, <<"L2", <<3, 4>> >> >>,
                        << <<"L1", <<0>> >>, <<"L2", <<1, 2>> >> >>,
                        << <<"L1", <<0, 1, 2, 3>> >>, <<"L2", <<4, 5>> >> >> }}

\* Two landmarks, one of which may have an unsupported number of links.
TwoLandmarkNets ==
    UNION {{SingleNet(layout, state) : state \in Strings({RED, GREEN}, Width(layout))} :
           layout \in TwoLandmarkLayouts}

-----------------------------------------------------------------------------
(* Construction *)

\* The engine right after load: every junction in phase 0 of its first program.
InitEngineLights(n) ==
    /\ net = n
    /\ eProgram = [tlid \in TlIds(n) |-> DictGet(n, tlid)[1].programID]
    /\ ePhase = [tlid \in TlIds(n) |-> 0]
    /\ ryg = [tlid \in TlIds(n) |-> DictGet(n, tlid)[1].phases[1]]
    /\ subs = [tlid \in TlIds(n) |-> <<DictGet(n, tlid)[1].programID, 0>>]

\* SumoTLManager.__init__
InitManager ==
    /\ tls = BuildTls(net)
    /\ current_program = eProgram
    /\ current_phase = ePhase
    /\ off = FALSE

\* The exception SumoTLManager.__init__ ends with: that of the first program,
\* in the order the engine lists them, whose SumoTLLogic raises.
manager_error(n) ==
    LET logics == Concat([j \in 1..Len(n) |-> n[j][2]])
        failing == {i \in 1..Len(logics) : parameters_error(logics[i].parameters) # None}
    IN IF failing = {} THEN None
       ELSE parameters_error(logics[CHOOSE i \in failing : \A j \in failing : i <= j].parameters)

\* SumoSimulation.__init__
InitSession ==
    /\ sequential_id = 0
    /\ spawned_actors = {}
    /\ destroyed_actors = {}
    /\ returned = <<>>

\* sample_traci: the tracking variables before the loop
InitSample ==
    /\ step = 0
    /\ stepCount = 0
    /\ vehicle_id_list = {}
    /\ current_vehicle_count = 0
    /\ current_vehicle_id_list = {}
    /\ removed_vehicles = {}

NoCall == [op |-> "init"]

NoVehicles == vehicles = {} /\ pending = {} /\ departed = {} /\ arrived = {}

\* No scenario driver runs the session.
NoDriver == pc = "none" /\ bound = {} /\ closed = 0

InitCommon ==
    /\ InitManager
    /\ carlaLights = [lm \in Landmarks |-> Unset]
    /\ InitSession
    /\ InitSample
    /\ ret = NoCall

\* A session over two junctions, without traffic.
Init ==
    /\ running = "session"
    /\ NoDriver
    /\ \E layout \in ManagerLayouts : InitEngineLights(NetOf(layout))
    /\ NoVehicles
    /\ InitCommon

\* A session over two junctions, of which J1 has landmarks of three and of
\* two links, without traffic.
InitQueries ==
    /\ running = "session"
    /\ NoDriver
    /\ InitEngineLights(NetOf(<< <<"L1", <<0, 1, 2>> >>, <<"L2", <<4, 3>> >> >>))
    /\ NoVehicles
    /\ InitCommon

\* A session over one junction in any of its state strings, without traffic.
InitTranslate ==
    /\ running = "session"
    /\ NoDriver
    /\ \E n \in OneLandmarkNets \cup TwoLandmarkNets : InitEngineLights(n)
    /\ NoVehicles
    /\ InitCommon

\* The vehicles the route files of the session's scenario load.
RouteVehicles == {<<"flow", "0">>, <<"flow", "1">>}

\* The vehicle identifiers the sample's scenario may show.
SampleVehicles == {"a", "b", "c", "d"}

\* A session with traffic over junction J2, or the sample loop.
InitRegistry ==
    /\ \/ /\ running = "session"
          /\ pending = RouteVehicles
       \/ /\ running = "sample"
          /\ pending = {}
    /\ NoDriver
    /\ InitEngineLights(<<JunctionTwo>>)
    /\ vehicles = {} /\ departed = {} /\ arrived = {}
    /\ InitCommon

\* Parameter keys as split(':') gives them: of the form 'linkSignalID:x' with
\* x a non-negative integer, and of other forms.
WellFormedKeys == {LinkKey(0), LinkKey(1)}

MalformedKeys ==
    {<<"phaseID", "1">>, <<"linkSignalID1">>, <<"linkSignalID", "a">>, <<"linkSignalID", "-1">>}

\* The parameters of a program: one or two keys, each with a landmark.
ParameterDicts ==
    LET keys == WellFormedKeys \cup MalformedKeys
        lms == {"L1", "L2"}
    IN {<< <<k, lm>> >> : k \in keys, lm \in lms}
       \cup UNION {{<< <<k1, lm1>>, <<k2, lm2>> >> :
                        k2 \in keys \ {k1}, lm1 \in lms, lm2 \in lms} : k1 \in keys}

\* The engine is loaded with one junction of one program, and the traffic
\* light manager is about to be constructed.
InitConstruct ==
    /\ running = "construction"
    /\ NoDriver
    /\ \E parameters \in ParameterDicts :
            /\ net = << <<"J1", << [programID |-> "0", phases |-> << <<"r", "G">> >>,
                                    parameters |-> parameters] >> >> >>
            /\ eProgram = [tlid \in {"J1"} |-> "0"]
            /\ ePhase = [tlid \in {"J1"} |-> 0]
            /\ ryg = [tlid \in {"J1"} |-> <<"r", "G">>]
            /\ subs = [tlid \in {"J1"} |-> <<"0", 0>>]
    /\ tls = <<>> /\ current_program = <<>> /\ current_phase = <<>> /\ off = FALSE
    /\ NoVehicles
    /\ carlaLights = [lm \in Landmarks |-> Unset]
    /\ InitSession
    /\ InitSample
    /\ ret = NoCall

\* A session over junction J2 whose route files load no vehicle.
InitSessionOnly ==
    /\ running = "session"
    /\ NoDriver
    /\ InitEngineLights(<<JunctionTwoReversed>>)
    /\ NoVehicles
    /\ InitCommon

\* A session with one vehicle of the route files, over junction J2.
InitActors ==
    /\ running = "session"
    /\ NoDriver
    /\ InitEngineLights(<<JunctionTwo>>)
    /\ pending = {<<"flow", "0">>}
    /\ vehicles = {} /\ departed = {} /\ arrived = {}
    /\ InitCommon

-----------------------------------------------------------------------------
(* Operations of the session *)

\* Mutant: both sets are read from the departed list.
refresh_departed_twice(dep, arr) == [spawned_actors |-> dep, destroyed_actors |-> dep]

\* Mutant: the identifiers of a step are added to the sets of the steps before.
refresh_accumulates(dep, arr) ==
    [spawned_actors |-> spawned_actors \cup dep, destroyed_actors |-> destroyed_actors \cup arr]

\* SumoSimulation.tick: simulationStep, the manager's tick, then the two sets.
\* refresh(dep, arr) is what the session keeps of the engine's two lists.
refresh(dep, arr) == [spawned_actors |-> dep, destroyed_actors |-> arr]

\* Mutant: the manager's tick and the refresh run before simulationStep and
\* read what the engine held before the step.
tick_reads_before_step(before_step, after_step) == before_step

\* simulationStep is the first statement of tick: the manager's tick and the
\* refresh that follow it read what the engine holds after the step.
tick_reads(before_step, after_step) == after_step

\* The statements of tick, in the order they run.
tick_statements ==
    <<"traci.simulationStep", "traffic_light_manager.tick",
      "spawned_actors = getDepartedIDList", "destroyed_actors = getArrivedIDList">>

Tick ==
    /\ running = "session"
    /\ \E choice \in [DOMAIN eProgram -> UNION {StepChoices(tlid) : tlid \in DOMAIN eProgram}],
          arr \in SUBSET vehicles, dep \in SUBSET pending :
        /\ \A tlid \in DOMAIN eProgram : choice[tlid] \in StepChoices(tlid)
        /\ StepLights(choice)
        /\ StepVehicles(arr, dep)
        /\ LET recorded == TLTick(tick_reads(subs, choice))
           IN /\ current_program' = [tlid \in DOMAIN current_program |-> recorded[tlid][1]]
              /\ current_phase' = [tlid \in DOMAIN current_phase |-> recorded[tlid][2]]
        /\ LET sets == refresh(tick_reads(departed, dep), tick_reads(arrived, arr))
           IN /\ spawned_actors' = sets.spawned_actors
              /\ destroyed_actors' = sets.destroyed_actors
        /\ ret' = [op |-> "tick", statements |-> tick_statements]
        /\ UNCHANGED <<running, net, tls, off, carlaLights, sequential_id, returned, driver,
                       sampleVars>>

\* SumoTLManager.__init__: it builds the table and records the current program
\* and phase of every junction, or ends with the exception of a SumoTLLogic.
Construct ==
    /\ running = "construction"
    /\ IF manager_error(net) = None
       THEN /\ tls' = BuildTls(net)
            /\ current_program' = eProgram
            /\ current_phase' = ePhase
            /\ off' = FALSE
            /\ running' = "session"
       ELSE UNCHANGED <<tls, current_program, current_phase, off, running>>
    /\ ret' = [op |-> "SumoTLManager", raised |-> manager_error(net)]
    /\ UNCHANGED <<engineTl, carlaLights, engineVeh, sessionVeh, returned, driver, sampleVars>>

GetState(landmark_id) ==
    /\ running = "session"
    /\ ret' = [op |-> "get_state", landmark_id |-> landmark_id,
               result |-> get_state(landmark_id)]
    /\ UNCHANGED <<running, engineTl, managerTl, carlaLights, engineVeh, sessionVeh,
                   returned, driver, sampleVars>>

SetState(landmark_id, state) ==
    /\ running = "session"
    /\ IF ProgramsKnown
       THEN /\ SetLinkStates(get_all_associated_signals(landmark_id), state)
            /\ ret' = [op |-> "set_state", landmark_id |-> landmark_id, state |-> state,
                       result |-> "True"]
       ELSE /\ UNCHANGED <<ryg, eProgram, ePhase>>
            /\ ret' = [op |-> "set_state", landmark_id |-> landmark_id, state |-> state,
                       result |-> KeyError]
    /\ UNCHANGED <<running, net, subs, managerTl, carlaLights, engineVeh, sessionVeh,
                   returned, driver, sampleVars>>

\* Every program the manager holds, of every junction.
AllPrograms ==
    UNION {{DictGet(tls, tlid)[i][2] : i \in 1..Len(DictGet(tls, tlid))} : tlid \in TlIds(tls)}

\* get_all_associated_signals of the manager, and with it get_associated_signals
\* of every program the manager holds.
GetAllAssociatedSignals(landmark_id) ==
    /\ running = "session"
    /\ ret' = [op |-> "get_all_associated_signals", landmark_id |-> landmark_id,
               raised |-> IF ProgramsKnown THEN None ELSE KeyError,
               result |-> IF ProgramsKnown THEN get_all_associated_signals(landmark_id)
                          ELSE {},
               of_program |-> {get_associated_signals(tl, landmark_id) : tl \in AllPrograms}]
    /\ UNCHANGED <<running, engineTl, managerTl, carlaLights, engineVeh, sessionVeh,
                   returned, driver, sampleVars>>

\* Mutant: switch_off records phase 0 for every junction it switches off.
SwitchOff_resets_phase ==
    /\ running = "session"
    /\ IF ProgramsKnown
       THEN /\ SetLinkStates(get_all_signals, OFF)
            /\ off' = TRUE
            /\ current_phase' = [tlid \in DOMAIN current_phase |-> 0]
            /\ ret' = [op |-> "switch_off", result |-> None]
       ELSE /\ UNCHANGED <<ryg, eProgram, ePhase, off, current_phase>>
            /\ ret' = [op |-> "switch_off", result |-> KeyError]
    /\ UNCHANGED <<running, net, subs, tls, current_program, carlaLights,
                   engineVeh, sessionVeh, returned, driver, sampleVars>>

SwitchOff ==
    /\ running = "session"
    /\ IF ProgramsKnown
       THEN /\ SetLinkStates(get_all_signals, OFF)
            /\ off' = TRUE
            /\ ret' = [op |-> "switch_off", result |-> None]
       ELSE /\ UNCHANGED <<ryg, eProgram, ePhase, off>>
            /\ ret' = [op |-> "switch_off", result |-> KeyError]
    /\ UNCHANGED <<running, net, subs, tls, current_program, current_phase, carlaLights,
                   engineVeh, sessionVeh, returned, driver, sampleVars>>

SetStatesFromSumo ==
    /\ running = "session"
    /\ LET out == set_states_from_sumo
       IN /\ carlaLights' = out.lights
          /\ ret' = [op |-> "set_states_from_sumo", calls |-> out.calls,
                     raisedAt |-> out.raisedAt]
    /\ tls' = table_after_sorted(tls)
    /\ UNCHANGED <<running, engineTl, current_program, current_phase, off, engineVeh,
                   sessionVeh, returned, driver, sampleVars>>

Translate(sumo_tl_state) ==
    /\ running = "session"
    /\ ret' = [op |-> "get_carla_traffic_light_state", sumo_tl_state |-> sumo_tl_state,
               result |-> get_carla_traffic_light_state(sumo_tl_state)]
    /\ UNCHANGED <<running, engineTl, managerTl, carlaLights, engineVeh, sessionVeh,
                   returned, driver, sampleVars>>

-----------------------------------------------------------------------------
(* Actors of the session *)

INVALID_ACTOR_ID == "INVALID_ACTOR_ID"
TraCIException == "TraCIException"

\* Bound of the model on the successful spawns of a session.
MaxSpawns == 3

\* The vehicle types the engine has loaded, and one it has not.
VTypes == {"vehicle.tesla.model3"}

TypeIds == VTypes \cup {"vehicle.unknown"}

\* A color argument, held as the parts color.split(',') gives; NoColor is None.
NoColor == <<>>

Colors == {NoColor, <<"5", "0", "0">>, <<"red">>}

\* str() of a sequence number.
PyStr(n) == IntTexts[n + 1]

\* 'carla' + str(self._sequential_id), held as its two parts.
ActorId(n) == <<"carla", PyStr(n)>>

\* The number an identifier returned by spawn_actor was made from.
ActorNumber(actor_id) == PyInt(actor_id[2])

\* traci.vehicle.add raises TraCIException: the identifier is in use, or the
\* engine knows no such vehicle type.
add_rejected(actor_id, type_id) ==
    actor_id \in vehicles \cup pending \/ type_id \notin VTypes

\* traci.vehicle.setColor packs int() of each part.
setColor_raises(color) == \E k \in 1..Len(color) : ~IsIntText(color[k])

\* Mutant: a rejected add still uses up the sequence number.
next_sequential_id_always(n, outcome) == n + 1

\* Mutant: the counter is never advanced.
next_sequential_id_stuck(n, outcome) == n

\* self._sequential_id after a call of spawn_actor: the counter is advanced
\* by the last statement before the return of the identifier.
next_sequential_id(n, outcome) == IF outcome = "actor_id" THEN n + 1 ELSE n

\* How a call of spawn_actor ends: it returns the identifier, returns
\* INVALID_ACTOR_ID, or ends with the exception of setColor.
spawn_outcome(actor_id, type_id, color) ==
    IF add_rejected(actor_id, type_id) THEN INVALID_ACTOR_ID
    ELSE IF color # NoColor /\ setColor_raises(color) THEN ValueError
    ELSE "actor_id"

Spawn(type_id, color) ==
    /\ running = "session"
    /\ sequential_id < MaxSpawns
    /\ LET actor_id == ActorId(sequential_id)
           outcome == spawn_outcome(actor_id, type_id, color)
       IN /\ pending' = IF outcome = INVALID_ACTOR_ID THEN pending
                         ELSE pending \cup {actor_id}
          /\ sequential_id' = next_sequential_id(sequential_id, outcome)
          /\ returned' = IF outcome = "actor_id" THEN Append(returned, actor_id)
                          ELSE returned
          /\ ret' = [op |-> "spawn_actor", type_id |-> type_id, color |-> color,
                     actor_id |-> actor_id, outcome |-> outcome]
    /\ UNCHANGED <<running, engineTl, managerTl, carlaLights, vehicles, departed, arrived,
                   spawned_actors, destroyed_actors, driver, sampleVars>>

\* The identifiers destroy_actor is called with.
DestroyIds == {ActorId(0), ActorId(1), <<"flow", "0">>}

\* How a call of destroy_actor ends: traci.vehicle.remove returns nothing, or
\* raises TraCIException for a vehicle the engine does not know.
destroy_outcome(actor_id) ==
    IF actor_id \in vehicles \cup pending THEN None ELSE TraCIException

Destroy(actor_id) ==
    /\ running = "session"
    /\ vehicles' = vehicles \ {actor_id}
    /\ pending' = pending \ {actor_id}
    /\ ret' = [op |-> "destroy_actor", actor_id |-> actor_id,
               outcome |-> destroy_outcome(actor_id),
               known |-> actor_id \in vehicles \cup pending]
    /\ UNCHANGED <<running, engineTl, managerTl, carlaLights, departed, arrived, sessionVeh,
                   returned, driver, sampleVars>>

\* synchronize_vehicle: moveToXY (and setSignals) on a vehicle; the pose of a
\* vehicle is no part of the modelled state. The engine raises TraCIException
\* for a vehicle it does not hold.
SynchronizeVehicle(vehicle_id) ==
    /\ running = "session"
    /\ ret' = [op |-> "synchronize_vehicle", vehicle_id |-> vehicle_id,
               outcome |-> IF vehicle_id \in vehicles \cup pending THEN "True"
                           ELSE TraCIException]
    /\ UNCHANGED <<running, engineTl, managerTl, carlaLights, engineVeh, sessionVeh,
                   returned, driver, sampleVars>>

-----------------------------------------------------------------------------
(* The sample loop *)

\* Bound of the model on the iterations of the sample's loop.
MaxSteps == 3

\* stepLength = 0.05 s, in hundredths of a second.
stepLength == 5

\* Mutant: the elapsed time is not advanced with the step counter.
advance_count_only(t, n) == [step |-> t, stepCount |-> n + 1]

\* The end of the loop body: step += stepLength, stepCount += 1.
advance(t, n) == [step |-> t + stepLength, stepCount |-> n + 1]

\* The loop body's check for removals: the list is recomputed only when this
\* pass counts fewer vehicles than the last one, and kept otherwise.
removed_after(previous, previous_count, current, removed) ==
    IF Cardinality(current) < previous_count
    THEN {v \in previous : v \notin current}
    ELSE removed

\* One pass of the while loop, simulationStep included. The identifier lists
\* are held as sets. (The body indexes the result of map(), which Python 2
\* allows; the loop is modelled as it runs there.)
SampleIteration ==
    /\ running = "sample"
    /\ stepCount < MaxSteps
    /\ vehicle_id_list' = vehicles
    /\ removed_vehicles' = removed_after(current_vehicle_id_list, current_vehicle_count,
                                         vehicles, removed_vehicles)
    /\ current_vehicle_count' = Cardinality(vehicles)
    /\ current_vehicle_id_list' = vehicles
    /\ \E now \in SUBSET SampleVehicles :
        /\ vehicles' = now
        /\ departed' = now \ vehicles
        /\ arrived' = vehicles \ now
    /\ step' = advance(step, stepCount).step
    /\ stepCount' = advance(step, stepCount).stepCount
    /\ ret' = [op |-> "sample_iteration", previous |-> current_vehicle_id_list]
    /\ UNCHANGED <<running, engineTl, managerTl, carlaLights, pending, sessionVeh,
                   returned, driver>>

-----------------------------------------------------------------------------
(* The scenario driver: run_scenario *)

UnboundLocalError == "UnboundLocalError"

\* The statements of the try block before the loop, in order, each with the
\* local name it binds.
Construction ==
    << <<"add_current_time", "scenario_params">>,
       <<"CavWorld", "cav_world">>,
       <<"CoScenarioManager", "scenario_manager">>,
       <<"create_vehicle_manager", "single_cav_list">>,
       <<"EvaluationManager", "eval_manager">>,
       <<"get_spectator", "spectator">> >>

ConstructionAt(stmt) == CHOOSE k \in 1..Len(Construction) : Construction[k][1] = stmt

IsConstruction(stmt) == \E k \in 1..Len(Construction) : Construction[k][1] = stmt

\* The statement after construction statement k.
AfterConstruction(k) == IF k < Len(Construction) THEN Construction[k + 1][1] ELSE "loop"

\* The names run_scenario has as parameters.
Parameters == {"opt", "scenario_params"}

\* run_scenario is called: the try block is entered.
InitDriver ==
    /\ pc = Construction[1][1]
    /\ bound = Parameters
    /\ closed = 0

\* The driver is started; the session it will construct is over junction J2
\* with the vehicles of the route files.
InitDriverSession ==
    /\ running = "session"
    /\ InitDriver
    /\ InitEngineLights(<<JunctionTwo>>)
    /\ pending = RouteVehicles
    /\ vehicles = {} /\ departed = {} /\ arrived = {}
    /\ InitCommon

\* One statement of the try block before the loop: it binds its name and
\* goes on, or raises and control passes to the finally block.
DriverConstruct ==
    /\ IsConstruction(pc)
    /\ LET k == ConstructionAt(pc)
       IN \/ /\ bound' = bound \cup {Construction[k][2]}
             /\ pc' = AfterConstruction(k)
             /\ ret' = [op |-> "run_scenario", statement |-> pc, raised |-> None]
          \/ /\ bound' = bound
             /\ pc' = "finally"
             /\ ret' = [op |-> "run_scenario", statement |-> pc, raised |-> "Exception"]
    /\ UNCHANGED <<running, engineTl, managerTl, carlaLights, engineVeh, sessionVeh,
                   returned, closed, sampleVars>>

\* One pass of the while loop: scenario_manager.tick() and the control of the
\* vehicles. The loop has no exit of its own.
DriverTick ==
    /\ pc = "loop"
    /\ Tick

\* A statement of the loop raises, or the run is interrupted.
DriverLoopRaises ==
    /\ pc = "loop"
    /\ pc' = "finally"
    /\ ret' = [op |-> "run_scenario", statement |-> "loop", raised |-> "Exception"]
    /\ UNCHANGED <<running, engineTl, managerTl, carlaLights, engineVeh, sessionVeh,
                   returned, bound, closed, sampleVars>>

\* finally: eval_manager.evaluate()
DriverEvaluate ==
    /\ pc = "finally"
    /\ \/ /\ "eval_manager" \in bound
          /\ \/ pc' = "close" /\ ret' = [op |-> "run_scenario", statement |-> "evaluate",
                                          raised |-> None]
             \/ pc' = "ended" /\ ret' = [op |-> "run_scenario", statement |-> "evaluate",
                                          raised |-> "Exception"]
       \/ /\ "eval_manager" \notin bound
          /\ pc' = "ended"
          /\ ret' = [op |-> "run_scenario", statement |-> "evaluate",
                     raised |-> UnboundLocalError]
    /\ UNCHANGED <<running, engineTl, managerTl, carlaLights, engineVeh, sessionVeh,
                   returned, bound, closed, sampleVars>>

\* finally: scenario_manager.close(), which closes the traci client.
close_count(n) == n + 1

DriverClose ==
    /\ pc = "close"
    /\ IF "scenario_manager" \in bound
       THEN /\ closed' = close_count(closed)
            /\ pc' = "destroy"
            /\ ret' = [op |-> "run_scenario", statement |-> "close", raised |-> None]
       ELSE /\ closed' = closed
            /\ pc' = "ended"
            /\ ret' = [op |-> "run_scenario", statement |-> "close",
                       raised |-> UnboundLocalError]
    /\ UNCHANGED <<running, engineTl, managerTl, carlaLights, engineVeh, sessionVeh,
                   returned, bound, sampleVars>>

\* finally: the vehicle managers are destroyed, and the exception that ended
\* the try block leaves run_scenario.
DriverDestroy ==
    /\ pc = "destroy"
    /\ pc' = "ended"
    /\ ret' = [op |-> "run_scenario", statement |-> "destroy",
               raised |-> IF "single_cav_list" \in bound THEN "Exception"
                          ELSE UnboundLocalError]
    /\ UNCHANGED <<running, engineTl, managerTl, carlaLights, engineVeh, sessionVeh,
                   returned, bound, closed, sampleVars>>

-----------------------------------------------------------------------------
(* Specifications *)

Next ==
    \/ Tick
    \/ \E landmark_id \in Landmarks \cup {UnknownLandmark} : GetState(landmark_id)
    \/ \E landmark_id \in Landmarks, state \in {RED, GREEN} : SetState(landmark_id, state)
    \/ SwitchOff

Spec == Init /\ [][Next]_vars

NextQueries ==
    \/ Tick
    \/ \E landmark_id \in Landmarks \cup {UnknownLandmark} : GetState(landmark_id)
    \/ \E landmark_id \in Landmarks \cup {UnknownLandmark} :
            GetAllAssociatedSignals(landmark_id)
    \/ \E landmark_id \in Landmarks \cup {UnknownLandmark} : SetState(landmark_id, GREEN)
    \/ SwitchOff

QuerySpec == InitQueries /\ [][NextQueries]_vars

NextTranslate ==
    \/ SetStatesFromSumo
    \/ \E c \in StateChars : Translate(c)

TranslateSpec == InitTranslate /\ [][NextTranslate]_vars

NextRegistry ==
    \/ Tick
    \/ SampleIteration

RegistrySpec == InitRegistry /\ [][NextRegistry]_vars

NextActors ==
    \/ Tick
    \/ \E type_id \in TypeIds, color \in Colors : Spawn(type_id, color)
    \/ \E actor_id \in DestroyIds : Destroy(actor_id)

ActorSpec == InitActors /\ [][NextActors]_vars

\* Bound of the model on the successful spawns of a session in which every
\* operation is called.
MaxSessionSpawns == 1

\* Every operation of the session, over junction J2.
NextSession ==
    \/ Tick
    \/ \E landmark_id \in {"M1", UnknownLandmark} : GetState(landmark_id)
    \/ \E state \in {RED, GREEN} : SetState("M1", state)
    \/ SetStatesFromSumo
    \/ SwitchOff
    \/ \E type_id \in TypeIds : sequential_id < MaxSessionSpawns /\ Spawn(type_id, NoColor)
    \/ Destroy(ActorId(0))
    \/ SynchronizeVehicle(ActorId(0))

SessionSpec == InitSessionOnly /\ [][NextSession]_vars

NextConstruct ==
    \/ Construct
    \/ \E landmark_id \in {"L1", "L2"} : GetAllAssociatedSignals(landmark_id)

ConstructSpec == InitConstruct /\ [][NextConstruct]_vars

NextDriver ==
    \/ DriverConstruct
    \/ DriverTick
    \/ DriverLoopRaises
    \/ DriverEvaluate
    \/ DriverClose
    \/ DriverDestroy

\* The interpreter runs the statement the driver is at: no run stops for
\* ever before a statement it could execute.
DriverSpec == InitDriverSession /\ [][NextDriver]_vars /\ WF_vars(NextDriver)

-----------------------------------------------------------------------------
(* What the claims are stated over: the engine's own data, read directly *)

IsListed(tlid, programID) ==
    \E i \in 1..Len(Logics(tlid)) : Logics(tlid)[i].programID = programID

LogicOf(tlid, programID) ==
    Logics(tlid)[CHOOSE i \in 1..Len(Logics(tlid)) : Logics(tlid)[i].programID = programID]

\* The link indices the parameters of a program give a landmark.
LinkIndices(logic, lm) ==
    {PyInt(logic.parameters[k][1][2]) :
        k \in {j \in 1..Len(logic.parameters) : logic.parameters[j][2] = lm}}

\* The place of a landmark's first parameter.
FirstParameter(logic, lm) ==
    CHOOSE k \in 1..Len(logic.parameters) :
        /\ logic.parameters[k][2] = lm
        /\ \A j \in 1..(k - 1) : logic.parameters[j][2] # lm

AllRecordedListed == \A tlid \in DOMAIN current_program : IsListed(tlid, current_program[tlid])

\* The state characters of a landmark's links in the recorded program and phase.
RecordedChars(lm) ==
    UNION {{LogicOf(tlid, current_program[tlid]).phases[current_phase[tlid] + 1][i + 1] :
               i \in LinkIndices(LogicOf(tlid, current_program[tlid]), lm)} :
           tlid \in DOMAIN current_program}

\* The state character the engine holds for a link.
LiveChar(tlid, i) == ryg[tlid][i + 1]

CoarseOf ==
    [c \in StateChars |->
        CASE c \in {"r", "u"} -> "Red"
          [] c = "y" -> "Yellow"
          [] c \in {"G", "g"} -> "Green"
          [] c = "O" -> "Off"
          [] OTHER -> "Unknown"]

\* The programs and landmarks set_states_from_sumo goes through.
ProgramLandmarks ==
    {<<tlid, logic, lm>> \in
        UNION {{<<t, Logics(t)[i], l>> : i \in 1..Len(Logics(t)), l \in Landmarks} :
               t \in TlIds(net)} :
        LinkIndices(logic, lm) # {}}

AfterTranslateAndApply == ret.op = "set_states_from_sumo"

\* The call set the light of the landmark.
Reached(lm) == \E k \in 1..Len(ret.calls) : ret.calls[k].c_tlid = lm

MiddleOf(indices) == CHOOSE m \in indices : \E a, b \in indices : a < m /\ m < b

LowestOf(indices) == CHOOSE m \in indices : \A a \in indices : m <= a

-----------------------------------------------------------------------------
(* Claims *)

\* C1: get_state of a landmark with at least one link returns the state
\* character of its links in the recorded program and phase when they all
\* agree, and RED when they disagree; it raises nothing.
C1_GetStateAgreesOrRed ==
    (ret.op = "get_state" /\ AllRecordedListed /\ RecordedChars(ret.landmark_id) # {})
        => LET chars == RecordedChars(ret.landmark_id)
           IN IF Cardinality(chars) = 1 THEN ret.result \in chars ELSE ret.result = RED

C1_Witness ==
    /\ ret.op = "get_state" /\ AllRecordedListed
    /\ Cardinality(RecordedChars(ret.landmark_id)) > 1
    /\ RED \notin RecordedChars(ret.landmark_id)
    /\ ret.result = RED

\* C2: a landmark of exactly three links gets the translation of the state of
\* the link with the middle link index, whatever order the parameters list
\* the links in.
C2_ThreeLinksUseMiddleIndex ==
    AfterTranslateAndApply =>
        \A pl \in ProgramLandmarks :
            LET indices == LinkIndices(pl[2], pl[3])
            IN Cardinality(indices) = 3 =>
                /\ ret.raisedAt = <<>> => Reached(pl[3])
                /\ Reached(pl[3]) =>
                     carlaLights[pl[3]] = CoarseOf[LiveChar(pl[1], MiddleOf(indices))]

C2_Witness ==
    /\ AfterTranslateAndApply
    /\ Len(Logics("J1")[1].parameters) = 3
    /\ Logics("J1")[1].parameters[2][1] = LinkKey(2)
    /\ ryg["J1"] = <<"r", "G", "y">>
    /\ carlaLights["L1"] = "Green"

\* C3: a landmark of exactly two links of which at least one is RED gets Red,
\* whichever of the two links is the RED one.
C3_TwoLinksAnyRedGivesStop ==
    AfterTranslateAndApply =>
        \A pl \in ProgramLandmarks :
            LET indices == LinkIndices(pl[2], pl[3])
            IN (Cardinality(indices) = 2 /\ \E i \in indices : LiveChar(pl[1], i) = "r") =>
                /\ ret.raisedAt = <<>> => Reached(pl[3])
                /\ Reached(pl[3]) => carlaLights[pl[3]] = "Red"

C3_Witness ==
    /\ AfterTranslateAndApply
    /\ Len(Logics("J1")[1].parameters) = 2
    /\ ryg["J1"] = <<"G", "r">>
    /\ carlaLights["L1"] = "Red"

\* C4: a landmark with one link or with four links ends the call with the
\* unsupported-direction-count error, and its light is not set.
C4_OtherCountsRaise ==
    AfterTranslateAndApply =>
        \A pl \in ProgramLandmarks :
            Cardinality(LinkIndices(pl[2], pl[3])) \notin {2, 3} =>
                /\ ret.raisedAt # <<>>
                /\ Cardinality(LinkIndices(LogicOf(ret.raisedAt[1].tlid,
                                                   ret.raisedAt[1].programID),
                                           ret.raisedAt[1].c_tlid)) \notin {2, 3}
                /\ \A k \in 1..Len(ret.calls) :
                        ret.calls[k].light # pl[3] /\ ret.calls[k].c_tlid # pl[3]
                /\ carlaLights[pl[3]] = Unset

C4_Witness ==
    /\ AfterTranslateAndApply
    /\ Cardinality(LinkIndices(Logics("J1")[1], "L1")) = 4
    /\ ret.raisedAt # <<>> /\ ret.raisedAt[1].c_tlid = "L1"
    /\ carlaLights["L2"] = "Red"

\* C5 as claimed: when one landmark raises the error, every other landmark of
\* two or three links still has its light set by the same call.
C5_OthersStillSet ==
    (AfterTranslateAndApply /\ ret.raisedAt # <<>>) =>
        \A pl \in ProgramLandmarks :
            Cardinality(LinkIndices(pl[2], pl[3])) \in {2, 3} => Reached(pl[3])

\* C5, amended: the error ends the whole call. The landmarks of two or three
\* links visited before the failing one have their light set; the ones that
\* come after it are not visited and their light is left as it was.
C5_ErrorEndsTheCall ==
    (AfterTranslateAndApply /\ ret.raisedAt # <<>>) =>
        \A pl \in ProgramLandmarks :
            Cardinality(LinkIndices(pl[2], pl[3])) \in {2, 3} =>
                LET failing == ret.raisedAt[1].c_tlid
                IN /\ Reached(pl[3]) <=>
                        FirstParameter(pl[2], pl[3]) < FirstParameter(pl[2], failing)
                   /\ ~Reached(pl[3]) => carlaLights[pl[3]] = Unset

C5_Witness ==
    /\ AfterTranslateAndApply /\ ret.raisedAt # <<>>
    /\ ret.raisedAt[1].c_tlid = "L1"
    /\ Cardinality(LinkIndices(Logics("J1")[1], "L1")) = 1
    /\ Reached("L2")

\* C6: the translation of a state character is total: 'r' and 'u' give Red,
\* 'y' Yellow, 'G' and 'g' Green, 'O' Off, and every other character,
\* 's' and 'o' included, Unknown.
C6_TranslationTotal ==
    ret.op = "get_carla_traffic_light_state" =>
        /\ ret.result = CoarseOf[ret.sumo_tl_state]
        /\ ret.result \in {"Red", "Yellow", "Green", "Off", "Unknown"}

C6_Witness ==
    /\ ret.op = "get_carla_traffic_light_state"
    /\ ret.sumo_tl_state = "x"
    /\ ret.result = "Unknown"

\* C7: once the disabled flag is set it stays set, and no later step, a tick
\* whatever the engine reports included, changes the recorded program or
\* phase of a junction.
C7_DisabledIsSticky ==
    [][off => (off' /\ current_program' = current_program
                    /\ current_phase' = current_phase)]_vars

C7_Witness ==
    /\ off /\ ret.op = "tick"
    /\ \E tlid \in DOMAIN subs :
        /\ subs[tlid][1] # ONLINE
        /\ subs[tlid] # <<current_program[tlid], current_phase[tlid]>>

\* C8: a tick of a manager that is not disabled records, for every junction,
\* the reported program and phase when the reported program is not 'online',
\* and leaves both as they were when it is 'online'.
C8_TickRecordsReportedPair ==
    [][(ret'.op = "tick" /\ ~off) =>
        \A tlid \in DOMAIN current_program :
            IF subs'[tlid][1] # ONLINE
            THEN current_program'[tlid] = subs'[tlid][1]
                 /\ current_phase'[tlid] = subs'[tlid][2]
            ELSE current_program'[tlid] = current_program[tlid]
                 /\ current_phase'[tlid] = current_phase[tlid]]_vars

C8_Witness ==
    /\ ret.op = "tick" /\ ~off
    /\ subs["J1"][1] = ONLINE /\ current_program["J1"] = "1"
    /\ subs["J2"] = <<"0", 1>> /\ current_phase["J2"] = 1

\* C9 as claimed: after every pass of the sample loop the removed vehicles are
\* the vehicles of the previous pass that the current pass no longer lists.
C9_RemovedIsPreviousMinusCurrent ==
    ret.op = "sample_iteration" => removed_vehicles = ret.previous \ vehicle_id_list

C11_ReturnedIdsStrictlyIncrease ==
    /\ \A i \in 1..Len(returned) :
            returned[i][1] = "carla" /\ IsIntText(returned[i][2])
    /\ \A i, j \in 1..Len(returned) :
            i < j => ActorNumber(returned[i]) < ActorNumber(returned[j])
    /\ \A i, j \in 1..Len(returned) : i # j => returned[i] # returned[j]

C11_Witness ==
    /\ Len(returned) = 3
    /\ ret.op = "spawn_actor" /\ ret.outcome = "actor_id"
    /\ ret.actor_id \notin vehicles \cup {returned[1], returned[2]}
    /\ returned[1] \in arrived

\* C12: a spawn the engine rejects returns INVALID_ACTOR_ID and raises
\* nothing; it leaves the sequence counter, the spawned and destroyed sets and
\* the engine's vehicles as they were; a tick that follows it refreshes the
\* two sets as any tick does, and a spawn that follows it and is accepted
\* returns the identifier the rejected call would have used.
C12_RejectedSpawnReturnsInvalid ==
    [][/\ (ret'.op = "spawn_actor" /\ add_rejected(ret'.actor_id, ret'.type_id)) =>
            /\ ret'.outcome = INVALID_ACTOR_ID
            /\ UNCHANGED <<sequential_id, spawned_actors, destroyed_actors, returned,
                           vehicles, pending>>
       /\ (ret.op = "spawn_actor" /\ ret.outcome = INVALID_ACTOR_ID) =>
            /\ ret'.op = "tick" =>
                    spawned_actors' = departed' /\ destroyed_actors' = arrived'
            /\ (ret'.op = "spawn_actor" /\ ret'.outcome = "actor_id") =>
                    /\ ret'.actor_id = ret.actor_id
                    /\ sequential_id' = sequential_id + 1]_vars

C12_Witness ==
    /\ ret.op = "spawn_actor" /\ ret.outcome = INVALID_ACTOR_ID
    /\ ret.type_id \notin VTypes
    /\ sequential_id = 1 /\ Len(returned) = 1
    /\ spawned_actors = {ActorId(0)}

\* C13 as claimed: destroy_actor of an identifier the engine does not hold
\* ends by returning a failure value to the caller, and changes nothing.
C13_DestroyAbsentReturnsFailure ==
    [][(ret'.op = "destroy_actor" /\ ~ret'.known) =>
            /\ ret'.outcome \in {"False", INVALID_ACTOR_ID}
            /\ UNCHANGED <<vehicles, pending, sessionVeh>>]_vars

\* C14: every tick runs its statements in one order: the engine's step first,
\* then the manager's tick, then the refresh of the two sets. What a tick
\* records of the lights and of the vehicles is what the engine holds after
\* the step of that tick, never what it held before it.
C14_TickStepsInOrder ==
    [][ret'.op = "tick" =>
        /\ ret'.statements[1] = "traci.simulationStep"
        /\ ret'.statements[2] = "traffic_light_manager.tick"
        /\ SubSeq(ret'.statements, 3, Len(ret'.statements)) =
               <<"spawned_actors = getDepartedIDList", "destroyed_actors = getArrivedIDList">>
        /\ spawned_actors' = departed' /\ destroyed_actors' = arrived'
        /\ \A tlid \in DOMAIN subs' :
               (~off /\ subs'[tlid][1] # ONLINE) =>
                   /\ current_program'[tlid] = subs'[tlid][1]
                   /\ current_phase'[tlid] = subs'[tlid][2]]_vars

C14_Witness ==
    /\ ret.op = "tick"
    /\ spawned_actors = {<<"flow", "1">>} /\ destroyed_actors = {<<"flow", "0">>}
    /\ subs["J2"] = <<"0", 1>> /\ current_phase["J2"] = 1

\* C15 as claimed: close() is executed at most once, and every run of the
\* driver that reaches its finally block, for whatever reason the try block
\* ended, goes on to execute close().
C15_CloseEventuallyOnce ==
    /\ [](closed <= 1)
    /\ (pc = "finally") ~> (closed = 1)

\* C16 as claimed: get_state called after a switch_off, the first or the
\* second of two, returns OFF for every landmark with links; and the second
\* of two switch_off calls in a row changes neither the manager nor the
\* engine's link states.
C16_SwitchOffTwiceDisabled ==
    [][(ret.op = "switch_off" /\ ret.result = None) =>
        /\ (ret'.op = "get_state" /\ RecordedChars(ret'.landmark_id) # {}) =>
                ret'.result = OFF
        /\ ret'.op = "switch_off" =>
                UNCHANGED <<tls, current_program, current_phase, off, ryg, eProgram, ePhase>>]_vars

\* C17: set_state pushes the state to every link the recorded programs give
\* the landmark and to no other link, and changes nothing of the manager;
\* for a landmark without links it pushes nothing, and the engine is left as
\* it was.
C17_SetStatePushesToLinksOnly ==
    [][(ret'.op = "set_state" /\ AllRecordedListed) =>
        /\ ret'.result = "True"
        /\ \A tlid \in DOMAIN ryg :
               \A i \in 0..(Len(ryg[tlid]) - 1) :
                   LiveChar(tlid, i)' =
                       IF i \in LinkIndices(LogicOf(tlid, current_program[tlid]),
                                            ret'.landmark_id)
                       THEN ret'.state
                       ELSE LiveChar(tlid, i)
        /\ UNCHANGED <<tls, current_program, current_phase, off>>
        /\ (\A tlid \in DOMAIN ryg :
                LinkIndices(LogicOf(tlid, current_program[tlid]), ret'.landmark_id) = {})
             => UNCHANGED <<ryg, eProgram, ePhase>>]_vars

C17_Witness ==
    /\ ret.op = "set_state" /\ ret.result = "True"
    /\ ret.landmark_id = "L2" /\ ret.state = GREEN
    /\ ryg["J1"] = <<"O", "O", "O", "G", "G">>
    /\ eProgram["J1"] = ONLINE /\ current_program["J1"] = "1"

C19_MalformedKeysRejected ==
    ret.op = "SumoTLManager" =>
        \A j \in 1..Len(net) : \A i \in 1..Len(net[j][2]) :
            \A k \in 1..Len(net[j][2][i].parameters) :
                net[j][2][i].parameters[k][1] \notin WellFormedKeys =>
                    ret.raised # None /\ tls = <<>>

\* C20 as claimed: every tick, of the session and of the sample loop alike,
\* advances the step index by one and the elapsed time by one step length.
C20_EveryTickAdvances ==
    [][ret'.op \in {"tick", "sample_iteration"} =>
            stepCount' = stepCount + 1 /\ step' = step + stepLength]_vars

\* C20, amended: the counters are those of the sample loop. Each pass of the
\* loop advances the step index by one and the elapsed time by one step
\* length, no other step changes them, and neither ever decreases; the tick
\* of the session advances no counter.
C20_SampleLoopAdvancesOnce ==
    [][/\ ret'.op = "sample_iteration" =>
            stepCount' = stepCount + 1 /\ step' = step + stepLength
       /\ ret'.op # "sample_iteration" => UNCHANGED <<step, stepCount>>
       /\ stepCount' >= stepCount /\ step' >= step]_vars

C20_Witness ==
    /\ ret.op = "sample_iteration"
    /\ stepCount = 3 /\ step > 0

\* C21: a landmark of exactly two links of which none is RED gets the
\* translation of the state of the link with the lower link index, whatever
\* order the parameters list the two links in.
C21_TwoLinksUseLowerIndex ==
    AfterTranslateAndApply =>
        \A pl \in ProgramLandmarks :
            LET indices == LinkIndices(pl[2], pl[3])
            IN (Cardinality(indices) = 2 /\ \A i \in indices : LiveChar(pl[1], i) # "r") =>
                /\ ret.raisedAt = <<>> => Reached(pl[3])
                /\ Reached(pl[3]) =>
                     carlaLights[pl[3]] = CoarseOf[LiveChar(pl[1], LowestOf(indices))]

C21_Witness ==
    /\ AfterTranslateAndApply
    /\ Len(Logics("J1")[1].parameters) = 2
    /\ Logics("J1")[1].parameters[1][1] = LinkKey(1)
    /\ ryg["J1"] = <<"G", "u">>
    /\ carlaLights["L1"] = "Green"

\* C22: the recorded program and phase of a junction change in no step but a
\* tick: get_state, set_state, set_states_from_sumo, switch_off, spawn_actor,
\* destroy_actor and synchronize_vehicle leave them as they were.
C22_RecordedPairChangesOnlyInTick ==
    [][ret'.op # "tick" => UNCHANGED <<current_program, current_phase>>]_vars

C22_Witness ==
    /\ ret.op = "synchronize_vehicle" /\ ret.outcome = "True"
    /\ off /\ current_phase["J2"] = 1
    /\ carlaLights["M1"] # Unset
    /\ sequential_id = 1 /\ ryg["J2"] = <<"r", "r">>

C24_SetsSupersededEveryTick ==
    [][ret'.op = "tick" =>
        /\ spawned_actors' = departed' /\ destroyed_actors' = arrived'
        /\ \A v \in spawned_actors : v \notin departed' => v \notin spawned_actors'
        /\ \A v \in destroyed_actors : v \notin arrived' => v \notin destroyed_actors']_vars

C24_Witness ==
    /\ ret.op = "tick"
    /\ spawned_actors = {} /\ destroyed_actors = {}
    /\ ActorId(0) \in vehicles /\ <<"flow", "0">> \notin vehicles \cup pending

\* C25: for every program of every junction, get_number_signals is the length
\* of every phase string of the program, and get_all_signals is one link for
\* each character position of a phase string.
C25_NumberSignalsIsPhaseWidth ==
    \A tl \in AllPrograms :
        \A k \in 1..Len(tl.states) :
            /\ get_number_signals(tl) = Len(tl.states[k])
            /\ TLLogic_get_all_signals(tl) = {<<tl.tlid, i - 1>> : i \in DOMAIN tl.states[k]}
            /\ Cardinality(TLLogic_get_all_signals(tl)) = Len(tl.states[k])

C25_Witness ==
    /\ ret.op = "get_all_associated_signals"
    /\ \E tl \in AllPrograms :
        /\ tl.tlid = "J1" /\ Len(tl.states) = 2
        /\ get_number_signals(tl) = 5
        /\ <<"J1", 4>> \in TLLogic_get_all_signals(tl)

\* C26: the program table is what the construction built from the programs
\* the engine listed, and no step changes it: tick, get_state, set_state,
\* set_states_from_sumo and switch_off leave the phase strings and the two
\* mappings of every program as they were.
C26_ProgramTableNeverChanges ==
    [][tls = BuildTls(net) /\ tls' = tls]_vars

C26_Witness ==
    /\ ret.op = "set_states_from_sumo" /\ ret.raisedAt = <<>>
    /\ off /\ current_phase["J2"] = 1 /\ ryg["J2"] = <<"O", "O">>
    /\ DictGet(DictGet(DictGet(tls, "J2"), "0").landmark2link, "M1") = <<<<"J2", 1>>, <<"J2", 0>>>>

\* C27: after any number of ticks the recorded program of every junction is a
\* key of its program table and the recorded phase is an index of that
\* program's phases, so get_state, get_all_signals and get_all_landmarks do
\* not fail, also when the engine reports a program it had not listed at the
\* start of the session.
C27_RecordedProgramAlwaysInTable ==
    /\ ProgramsKnown
    /\ \A tlid \in DOMAIN current_program :
           InRange(CurrentLogic(tlid).states, current_phase[tlid])
    /\ ret.op = "get_state" => ret.result \notin {KeyError, IndexError}

\* C28: after any sequence of spawn calls, also ones that end in the
\* exception of setColor after the engine accepted the add, every identifier
\* the engine accepted was made from a number strictly below the counter, so
\* the next spawn does not ask for an identifier that was already added.
C28_AcceptedIdsBelowCounter ==
    \A v \in vehicles \cup pending :
        v[1] = "carla" => ActorNumber(v) < sequential_id

\* C29: after construction the two mappings of every program agree: a link is
\* in the list of a landmark exactly when the link's landmark is that
\* landmark, so no link is listed under two landmarks, and no link is listed
\* twice under one; for every parameter mapping, also one with keys that
\* parse to the same index.
C29_MappingsMutuallyConsistent ==
    running = "session" =>
        \A tl \in AllPrograms :
            /\ \A k \in 1..Len(tl.landmark2link) :
                   LET landmark_id == tl.landmark2link[k][1]
                       links == tl.landmark2link[k][2]
                   IN /\ \A i \in 1..Len(links) :
                             /\ DictHas(tl.link2landmark, links[i])
                             /\ DictGet(tl.link2landmark, links[i]) = landmark_id
                      /\ Cardinality(SeqToSet(links)) = Len(links)
            /\ \A k \in 1..Len(tl.link2landmark) :
                   /\ DictHas(tl.landmark2link, tl.link2landmark[k][2])
                   /\ tl.link2landmark[k][1] \in
                          SeqToSet(DictGet(tl.landmark2link, tl.link2landmark[k][2]))

====
